---- MODULE Spec2Model ----
(***************************************************************************)
(* rating-update: the periodic rating and aggregation engine (scheduler,   *)
(* batch updater, watermark tracker, aggregation rebuilder) and the        *)
(* read-serving layer of src/api.rs that queries the tables it writes.     *)
(*                                                                         *)
(* Fixed point: ratings are integers on a coarse internal scale, expected  *)
(* outcomes and the g-factor are tenths, the information of a game is in   *)
(* hundredths.                                                             *)
(***************************************************************************)
EXTENDS Integers, Sequences, FiniteSets, TLC

\* ------------------------------------------------------------------ bounds
MaxTime == 4
MaxGames == 2

\* --------------------------------------------------------------- constants
RATING_PERIOD == 2
DEV_FLOOR == 2
DEV_CEILING == 3
DECAY_STEP == 3
INITIAL_VALUE == 0
LOW_DEVIATION == 2

NoRow == [none |-> TRUE]

\* (player id, character id) pairs that can appear in the log
PlayerChars == {<<1, 1>>, <<1, 2>>, <<2, 1>>}

\* winner codes of a match: 1 = side A, 2 = side B
Winners == {1, 2}

Floors == {1}

Min(a, b) == IF a < b THEN a ELSE b
Max(a, b) == IF a > b THEN a ELSE b

\* integer square root, rounded to nearest
ISqrt(n) == CHOOSE r \in 0..n : (r = 0 \/ r * r - r < n) /\ n <= r * r + r

\* n / d rounded to nearest, halves away from zero (d > 0)
DivRound(n, d) == IF n >= 0 THEN (2 * n + d) \div (2 * d) ELSE 0 - ((d - 2 * n) \div (2 * d))

\* ------------------------------------------------------------ Rating Model
\* Rating{value, deviation}
Rating(value, deviation) == [value |-> value, deviation |-> deviation]

\* Glicko-2 g(phi) = 1/sqrt(1 + 3 phi^2 / pi^2), in tenths
GFactor(deviation) == 10 - deviation

\* the logistic function 1/(1 + exp(-x)) in tenths; x in twentieths
Logistic10(x) ==
    LET pos(y) == IF y < 4 THEN 5 ELSE IF y < 13 THEN 6 ELSE IF y < 22 THEN 7
                  ELSE IF y < 35 THEN 8 ELSE IF y < 59 THEN 9 ELSE 10
    IN IF x >= 0 THEN pos(x) ELSE 10 - pos(0 - x)

\* Rating::expected(a, b): probability (tenths) that a beats b
expected(a, b) == Logistic10(GFactor(b.deviation) * (a.value - b.value))

\* (a decay that forgets the ceiling)
decayUnbounded(r) == Rating(r.value, ISqrt(r.deviation * r.deviation + DECAY_STEP * DECAY_STEP))

\* (a decay that also pulls the value down)
decayDrift(r) == Rating(r.value - 1, Min(DEV_CEILING, ISqrt(r.deviation * r.deviation + DECAY_STEP * DECAY_STEP)))

\* one period of inactivity: phi* = sqrt(phi^2 + sigma^2), never above the ceiling
decay(r) == Rating(r.value, Min(DEV_CEILING, ISqrt(r.deviation * r.deviation + DECAY_STEP * DECAY_STEP)))

RECURSIVE decay_n(_, _)
decay_n(r, n) == IF n <= 0 THEN r ELSE decay_n(decay(r), n - 1)

\* results: a sequence of [opp |-> Rating, score |-> 0 or 10]
RECURSIVE SumInfo(_, _)
SumInfo(r, results) ==
    IF results = << >> THEN 0
    ELSE LET h == Head(results)
             g == GFactor(h.opp.deviation)
             e == expected(r, h.opp)
         IN (g * g * e * (10 - e)) \div 100 + SumInfo(r, Tail(results))

RECURSIVE SumOutcome(_, _)
SumOutcome(r, results) ==
    IF results = << >> THEN 0
    ELSE LET h == Head(results)
         IN GFactor(h.opp.deviation) * (h.score - expected(r, h.opp)) + SumOutcome(r, Tail(results))

\* post-update deviation: 1/phi'^2 = 1/phi*^2 + 1/v, never below the floor
NewDeviation(r, results) ==
    LET star == decay(r).deviation
        s == SumInfo(r, results)
    IN Max(DEV_FLOOR, Min(star, ISqrt((100 * star * star) \div (100 + s * star * star))))

\* (an update that applies the games of the period one after the other)
RECURSIVE updateSequential(_, _)
updateSequential(r, results) ==
    IF results = << >> THEN r
    ELSE LET one == <<Head(results)>>
             d == NewDeviation(r, one)
         IN updateSequential(Rating(r.value + DivRound(d * d * SumOutcome(r, one), 100), d), Tail(results))

\* Rating::update(rating, results): one period's games as one batch
update(r, results) ==
    LET d == NewDeviation(r, results)
    IN Rating(r.value + DivRound(d * d * SumOutcome(r, results), 100), d)

\* Rating::rating_change(a, b, score): the single-game contribution to a's value
rating_change(a, b, score) == update(a, <<[opp |-> b, score |-> score]>>).value - a.value

\* ------------------------------------------------------------------- state
VARIABLES
    now,        \* the wall clock (Utc::now().timestamp())
    games,      \* the append-only match log, in order of arrival
    db,         \* the committed store: config, player_ratings, game_ratings, aggregates
    state,      \* the Period Scheduler: "Idle" or "Running"
    step,       \* position of the run in progress
    run_now,    \* the clock value the run in progress started with
    window,     \* the indices into games the run in progress has read
    tx,         \* the uncommitted writes of the run in progress
    tick_result,\* what the latest tick did: "none", "busy", "idle", "started"
    rd          \* a get_player_data_char request of the read-serving layer

vars == <<now, games, db, state, step, run_now, window, tx, tick_result, rd>>

SideA(g) == <<g.id_a, g.char_a>>
SideB(g) == <<g.id_b, g.char_b>>

\* the pairings (side A, side B) the log can hold: two sides are different
\* players, and <<2, 1>> plays on either side
MatchPairs == {<<<<1, 1>>, <<2, 1>>>>, <<<<2, 1>>, <<1, 2>>>>}

\* the matches the ingestion collaborator can record at time t
Matches(t) ==
    {[id_a |-> p[1][1], char_a |-> p[1][2], id_b |-> p[2][1], char_b |-> p[2][2],
      timestamp |-> t, winner |-> w, game_floor |-> f] :
        p \in MatchPairs, w \in Winners, f \in Floors}

\* a new entrant's row: the fixed prior, no games, no watermarks
NewRow ==
    [value |-> INITIAL_VALUE, deviation |-> DEV_CEILING, wins |-> 0, losses |-> 0,
     top_rating |-> NoRow, top_defeated |-> NoRow]

RowOrNew(ratings, pc) == IF ratings[pc] = NoRow THEN NewRow ELSE ratings[pc]

RatingOf(ratings, pc) == Rating(RowOrNew(ratings, pc).value, RowOrNew(ratings, pc).deviation)

EmptyDb(t) ==
    [last_update |-> t,
     run |-> 0,
     player_ratings |-> [pc \in PlayerChars |-> NoRow],
     game_ratings |-> << >>,
     ranking_global |-> << >>,
     player_matchups |-> [pc \in PlayerChars |-> [c \in {q[2] : q \in PlayerChars} |-> [wins_real |-> 0, losses_real |-> 0]]]]

\* no request in progress
NoRequest == [step |-> "idle"]

Init ==
    /\ now = 0
    /\ games = << >>
    /\ db = EmptyDb(0)
    /\ state = "Idle"
    /\ step = "idle"
    /\ run_now = 0
    /\ window = {}
    /\ tx = db
    /\ tick_result = "none"
    /\ rd = NoRequest

\* ---------------------------------------------------------- Period Scheduler
\* the matches a run reads: every match with timestamp > last_update
ReadWindow(log, last_update) == {i \in 1..Len(log) : log[i].timestamp > last_update}

\* (a scheduler that runs on every tick after last_update)
DueAnyTime(t, last_update) == t - last_update >= 1

\* a run is due once a whole period has elapsed
Due(t, last_update) == t - last_update >= RATING_PERIOD

\* (a scheduler without the Running state)
BusyNever(st) == FALSE

\* a run is in progress
Busy(st) == st = "Running"

\* whole periods elapsed between last_update and t
ElapsedPeriods(t, last_update) == (t - last_update) \div RATING_PERIOD

\* (a scheduler that commits the time the run started)
NewLastUpdateNow(t, last_update) == t

\* the last_update a successful run commits
NewLastUpdate(t, last_update) == last_update + RATING_PERIOD * ElapsedPeriods(t, last_update)

\* ------------------------------------------------------ Batch Rating Updater
Involves(g, pc) == SideA(g) = pc \/ SideB(g) = pc

Opponent(g, pc) == IF SideA(g) = pc THEN SideB(g) ELSE SideA(g)

WonBy(g, pc) == (SideA(g) = pc /\ g.winner = 1) \/ (SideB(g) = pc /\ g.winner = 2)

\* the (opponent_rating, score) pairs of pc among games 1..n of the window,
\* every opponent taken at its rating before the run
RECURSIVE ResultsUpTo(_, _, _, _, _)
ResultsUpTo(pc, ratings, log, win, n) ==
    IF n = 0 THEN << >>
    ELSE LET rest == ResultsUpTo(pc, ratings, log, win, n - 1)
         IN IF n \in win /\ Involves(log[n], pc)
            THEN Append(rest, [opp |-> RatingOf(ratings, Opponent(log[n], pc)),
                               score |-> IF WonBy(log[n], pc) THEN 10 ELSE 0])
            ELSE rest

WinsIn(pc, log, win) == Cardinality({i \in win : Involves(log[i], pc) /\ WonBy(log[i], pc)})

LossesIn(pc, log, win) == Cardinality({i \in win : Involves(log[i], pc) /\ ~WonBy(log[i], pc)})

\* the row of pc after the run: batch update when it played in the window,
\* pure decay when it did not and has history, no row otherwise
UpdatedRow(pc, ratings, log, win, periods) ==
    LET results == ResultsUpTo(pc, ratings, log, win, Len(log))
        row == RowOrNew(ratings, pc)
    IN IF results # << >>
       THEN LET r == update(RatingOf(ratings, pc), results)
            IN [row EXCEPT !.value = r.value, !.deviation = r.deviation,
                           !.wins = @ + WinsIn(pc, log, win),
                           !.losses = @ + LossesIn(pc, log, win)]
       ELSE IF ratings[pc] = NoRow THEN NoRow
       ELSE LET r == decay_n(RatingOf(ratings, pc), periods)
            IN [row EXCEPT !.value = r.value, !.deviation = r.deviation]

\* one RatingSnapshot row per game of the window, at the ratings before the run
RECURSIVE SnapshotsUpTo(_, _, _, _)
SnapshotsUpTo(ratings, log, win, n) ==
    IF n = 0 THEN << >>
    ELSE LET rest == SnapshotsUpTo(ratings, log, win, n - 1)
             a == RatingOf(ratings, SideA(log[n]))
             b == RatingOf(ratings, SideB(log[n]))
         IN IF n \in win
            THEN Append(rest, [game |-> n, value_a |-> a.value, deviation_a |-> a.deviation,
                               value_b |-> b.value, deviation_b |-> b.deviation])
            ELSE rest

UpdateRatings(t, log, win, periods) ==
    [t EXCEPT !.player_ratings = [pc \in PlayerChars |-> UpdatedRow(pc, t.player_ratings, log, win, periods)],
              !.game_ratings = @ \o SnapshotsUpTo(t.player_ratings, log, win, Len(log))]

\* --------------------------------------------------------- Watermark Tracker
\* (a comparison that also replaces on a tie)
ExceedsOrTies(new, stored) == stored = NoRow \/ new >= stored.value

\* strict greater-than against the stored watermark (none stored: any value)
Exceeds(new, stored) == stored = NoRow \/ new > stored.value

\* the snapshot row this run wrote for game n (the last one for that game)
SnapshotOf(rows, n) == rows[CHOOSE k \in 1..Len(rows) : rows[k].game = n /\ \A j \in (k + 1)..Len(rows) : rows[j].game # n]

TrackGame(row, pc, g, snap) ==
    LET opp == Opponent(g, pc)
        opp_value == IF SideA(g) = pc THEN snap.value_b ELSE snap.value_a
        opp_deviation == IF SideA(g) = pc THEN snap.deviation_b ELSE snap.deviation_a
        top_rating == IF Exceeds(row.value, row.top_rating)
                      THEN [value |-> row.value, deviation |-> row.deviation, timestamp |-> g.timestamp]
                      ELSE row.top_rating
        top_defeated == IF WonBy(g, pc) /\ Exceeds(opp_value, row.top_defeated)
                        THEN [id |-> opp[1], char_id |-> opp[2], value |-> opp_value,
                              deviation |-> opp_deviation, floor |-> g.game_floor,
                              timestamp |-> g.timestamp]
                        ELSE row.top_defeated
    IN [row EXCEPT !.top_rating = top_rating, !.top_defeated = top_defeated]

RECURSIVE TrackUpTo(_, _, _, _, _, _)
TrackUpTo(row, pc, rows, log, win, n) ==
    IF n = 0 THEN row
    ELSE LET before == TrackUpTo(row, pc, rows, log, win, n - 1)
         IN IF n \in win /\ Involves(log[n], pc)
            THEN TrackGame(before, pc, log[n], SnapshotOf(rows, n))
            ELSE before

TrackWatermarks(t, log, win) ==
    [t EXCEPT !.player_ratings = [pc \in PlayerChars |->
        IF t.player_ratings[pc] = NoRow THEN NoRow
        ELSE TrackUpTo(t.player_ratings[pc], pc, t.game_ratings, log, win, Len(log))]]

\* ------------------------------------------------------ Aggregation Rebuilder
\* pc ranks before q: higher value, ties by (id, char_id)
RanksBefore(ratings, pc, q) ==
    \/ ratings[pc].value > ratings[q].value
    \/ /\ ratings[pc].value = ratings[q].value
       /\ (pc[1] < q[1] \/ (pc[1] = q[1] /\ pc[2] <= q[2]))

RECURSIVE SortRanking(_, _)
SortRanking(ratings, S) ==
    IF S = {} THEN << >>
    ELSE LET top == CHOOSE pc \in S : \A q \in S : RanksBefore(ratings, pc, q)
         IN <<top>> \o SortRanking(ratings, S \ {top})

\* ranking_global: by value, without the entries whose deviation exceeds the cutoff
RankingGlobal(ratings) ==
    SortRanking(ratings, {pc \in PlayerChars : ratings[pc] # NoRow /\ ratings[pc].deviation <= LOW_DEVIATION})

\* player_matchups: per player-character and opponent character, from the snapshot history
PlayerMatchups(rows, log) ==
    [pc \in PlayerChars |-> [c \in {q[2] : q \in PlayerChars} |->
        LET played == {k \in 1..Len(rows) : Involves(log[rows[k].game], pc)
                                            /\ Opponent(log[rows[k].game], pc)[2] = c}
        IN [wins_real |-> Cardinality({k \in played : WonBy(log[rows[k].game], pc)}),
            losses_real |-> Cardinality({k \in played : ~WonBy(log[rows[k].game], pc)})]]]

RebuildAggregates(t, log) ==
    [t EXCEPT !.ranking_global = RankingGlobal(t.player_ratings),
              !.player_matchups = PlayerMatchups(t.game_ratings, log)]

\* -------------------------------------------------------------------- actions
\* the clock moves on
Advance ==
    /\ now < MaxTime
    /\ now' = now + 1
    /\ UNCHANGED <<games, db, state, step, run_now, window, tx, tick_result, rd>>

\* the ingestion collaborator appends a match to the log
RecordMatch ==
    /\ Len(games) < MaxGames
    /\ \E m \in Matches(now) : games' = Append(games, m)
    /\ UNCHANGED <<now, db, state, step, run_now, window, tx, tick_result, rd>>

\* a run begins: a transaction on the committed state, the window read
StartRun ==
    /\ state' = "Running"
    /\ step' = "update"
    /\ run_now' = now
    /\ window' = ReadWindow(games, db.last_update)
    /\ tx' = db
    /\ UNCHANGED <<now, games, db, rd>>

\* an external tick of the scheduler
Tick ==
    IF Busy(state)
    THEN tick_result' = "busy" /\ UNCHANGED <<now, games, db, state, step, run_now, window, tx, rd>>
    ELSE IF ~Due(now, db.last_update)
    THEN tick_result' = "idle" /\ UNCHANGED <<now, games, db, state, step, run_now, window, tx, rd>>
    ELSE tick_result' = "started" /\ StartRun

\* 4.3: ratings, counters and snapshots
DoUpdate ==
    /\ state = "Running" /\ step = "update"
    /\ tx' = UpdateRatings(tx, games, window, ElapsedPeriods(run_now, db.last_update))
    /\ step' = "watermark"
    /\ UNCHANGED <<now, games, db, state, run_now, window, tick_result, rd>>

\* 4.4: peak rating and best win
DoWatermarks ==
    /\ state = "Running" /\ step = "watermark"
    /\ tx' = TrackWatermarks(tx, games, window)
    /\ step' = "rebuild"
    /\ UNCHANGED <<now, games, db, state, run_now, window, tick_result, rd>>

\* 4.5: the aggregate tables
DoRebuild ==
    /\ state = "Running" /\ step = "rebuild"
    /\ tx' = RebuildAggregates(tx, games)
    /\ step' = "commit"
    /\ UNCHANGED <<now, games, db, state, run_now, window, tick_result, rd>>

\* what the store holds once the run's transaction commits
Committed(t, last_update, started) ==
    [t EXCEPT !.last_update = NewLastUpdate(started, last_update), !.run = @ + 1]

Commit ==
    /\ state = "Running" /\ step = "commit"
    /\ db' = Committed(tx, db.last_update, run_now)
    /\ tx' = db'
    /\ state' = "Idle"
    /\ step' = "idle"
    /\ window' = {}
    /\ UNCHANGED <<now, games, run_now, tick_result, rd>>

\* (a rollback that keeps the advanced last_update)
RolledBackAdvanced(d, t) == [d EXCEPT !.last_update = @ + RATING_PERIOD]

\* what the store holds once the run's transaction is rolled back
RolledBack(d, t) == d

\* a storage failure or a fail-closed inconsistency abandons the run
Fail ==
    /\ state = "Running"
    /\ db' = RolledBack(db, tx)
    /\ tx' = db'
    /\ state' = "Idle"
    /\ step' = "idle"
    /\ window' = {}
    /\ UNCHANGED <<now, games, run_now, tick_result, rd>>

\* ------------------------------------------------ read-serving layer (api.rs)
Chars == {q[2] : q \in PlayerChars}

\* position of pc in a ranking table, NoRow when it is not ranked (LEFT JOIN)
RankOf(ranking, pc) ==
    IF \E k \in 1..Len(ranking) : ranking[k] = pc
    THEN CHOOSE k \in 1..Len(ranking) : ranking[k] = pc
    ELSE NoRow

\* get_player_other_characters: one statement over player_ratings
OtherCharacters(d, id) ==
    {[char_id |-> c, game_count |-> d.player_ratings[<<id, c>>].wins + d.player_ratings[<<id, c>>].losses,
      rating_value |-> d.player_ratings[<<id, c>>].value,
      rating_deviation |-> 2 * d.player_ratings[<<id, c>>].deviation] :
        c \in {x \in Chars : <<id, x>> \in PlayerChars /\ d.player_ratings[<<id, x>>] # NoRow}}

\* get_player_character_data, first statement: player_ratings LEFT JOIN ranking_global
CharacterRow(d, id, char_id) ==
    LET row == d.player_ratings[<<id, char_id>>]
    IN [game_count |-> row.wins + row.losses,
        rating_value |-> row.value,
        rating_deviation |-> 2 * row.deviation,
        top_rating |-> row.top_rating,
        top_defeated |-> row.top_defeated,
        global_rank |-> RankOf(d.ranking_global, <<id, char_id>>)]

\* get_player_data_char starts: the player exists
BeginRequest ==
    /\ rd.step = "idle"
    /\ \E pc \in PlayerChars :
        rd' = [step |-> "other_characters", id |-> pc[1], char_id |-> pc[2]]
    /\ UNCHANGED <<now, games, db, state, step, run_now, window, tx, tick_result>>

ReadOtherCharacters ==
    /\ rd.step = "other_characters"
    /\ rd' = [step |-> "character_data", id |-> rd.id, char_id |-> rd.char_id,
              other_characters |-> OtherCharacters(db, rd.id)]
    /\ UNCHANGED <<now, games, db, state, step, run_now, window, tx, tick_result>>

ReadCharacterData ==
    /\ rd.step = "character_data"
    /\ IF db.player_ratings[<<rd.id, rd.char_id>>] = NoRow
       THEN rd' = [step |-> "done", id |-> rd.id, char_id |-> rd.char_id, response |-> NoRow]
       ELSE rd' = [step |-> "matchups", id |-> rd.id, char_id |-> rd.char_id,
                   other_characters |-> rd.other_characters,
                   data |-> CharacterRow(db, rd.id, rd.char_id)]
    /\ UNCHANGED <<now, games, db, state, step, run_now, window, tx, tick_result>>

ReadMatchups ==
    /\ rd.step = "matchups"
    /\ rd' = [step |-> "done", id |-> rd.id, char_id |-> rd.char_id,
              response |-> [other_characters |-> rd.other_characters, data |-> rd.data,
                            matchups |-> db.player_matchups[<<rd.id, rd.char_id>>]]]
    /\ UNCHANGED <<now, games, db, state, step, run_now, window, tx, tick_result>>

\* stats_inner: the three counts and the time left to the next run
stats_inner(d, log, t) ==
    [game_count |-> Len(log),
     player_count |-> Cardinality({SideA(log[i])[1] : i \in 1..Len(log)} \cup {SideB(log[i])[1] : i \in 1..Len(log)}),
     last_update |-> d.last_update,
     next_update_in |-> d.last_update + RATING_PERIOD - t]

\* GET /api/stats
Stats ==
    /\ rd.step = "idle"
    /\ rd' = [step |-> "stats", response |-> stats_inner(db, games, now)]
    /\ UNCHANGED <<now, games, db, state, step, run_now, window, tx, tick_result>>

\* the pages that count hits
Pages == {"stats", "top"}

\* (an add_hit that counts in the config row)
add_hitInConfig(d, page) == [d EXCEPT !.last_update = @ + 1]

\* add_hit: the store after the call (the body is commented out)
add_hit(d, page) == d

AddHit ==
    /\ \E page \in Pages : db' = add_hit(db, page)
    /\ UNCHANGED <<now, games, state, step, run_now, window, tx, tick_result, rd>>

\* a statement of the request fails (unwrap): the request ends without a response
RequestFails ==
    /\ rd.step \in {"other_characters", "character_data", "matchups"}
    /\ rd' = NoRequest
    /\ UNCHANGED <<now, games, db, state, step, run_now, window, tx, tick_result>>

Respond ==
    /\ rd.step \in {"done", "stats"}
    /\ rd' = NoRequest
    /\ UNCHANGED <<now, games, db, state, step, run_now, window, tx, tick_result>>

\* ---------------------------------------------- queries of api.rs, one by one
\* player ids a request can name: 3 has no rating row at all
QueryIds == {1, 2, 3}

\* rating rows a query can meet (value, deviation on the internal scale)
QueryRows == {[value |-> v, deviation |-> d] : v \in {0, 5, 10}, d \in {1, 3}}

\* contents of player_ratings a query can meet
RatingTables == [PlayerChars -> {NoRow} \cup QueryRows]

\* the characters id has a rating row for
CharsOf(ratings, id) == {c \in Chars : <<id, c>> \in PlayerChars /\ ratings[<<id, c>>] # NoRow}

\* (ORDER BY value DESC)
RatedOrderRaw(row) == row.value

\* ORDER BY value - 3.0 * deviation DESC
RatedOrder(row) == row.value - 3 * row.deviation

\* the rows of id in descending order, equal keys in primary-key order
RECURSIVE OrderByRated(_, _, _)
OrderByRated(ratings, id, S) ==
    IF S = {} THEN << >>
    ELSE LET top == CHOOSE c \in S : \A q \in S :
                        \/ RatedOrder(ratings[<<id, c>>]) > RatedOrder(ratings[<<id, q>>])
                        \/ RatedOrder(ratings[<<id, c>>]) = RatedOrder(ratings[<<id, q>>]) /\ c <= q
         IN <<top>> \o OrderByRated(ratings, id, S \ {top})

\* LIMIT 1 and .optional(): the first row, None when there is none
get_player_highest_rated_character(ratings, id) ==
    LET sorted == OrderByRated(ratings, id, CharsOf(ratings, id))
    IN IF sorted = << >> THEN NoRow ELSE [char_id |-> Head(sorted)]

HighestRated ==
    /\ rd.step = "idle"
    /\ \E t \in RatingTables : \E id \in QueryIds :
        rd' = [step |-> "highest_rated", ratings |-> t, id |-> id,
               response |-> get_player_highest_rated_character(t, id)]
    /\ UNCHANGED <<now, games, db, state, step, run_now, window, tx, tick_result>>

\* f64 values a response can carry: a number, or NaN
NAN == [nan |-> TRUE, v |-> 0]

Float(x) == [nan |-> FALSE, v |-> x]

\* (a / b * 100.0).round() on f64 for 0 <= a <= b: 0.0 / 0.0 is NaN
Percent(a, b) == IF b = 0 THEN NAN ELSE Float(DivRound(100 * a, b))

MATCHUP_MIN_GAMES == 250

\* (the labels of two grades exchanged)
get_evaluationSwapped(wins, losses, game_count) ==
    LET over(hundredths) == wins + losses # 0 /\ 100 * wins > hundredths * (wins + losses)
    IN IF game_count < MATCHUP_MIN_GAMES THEN "none"
       ELSE IF over(60) THEN "verygood"
       ELSE IF over(56) THEN "slightlygood"
       ELSE IF over(52) THEN "good"
       ELSE IF over(48) THEN "ok"
       ELSE IF over(44) THEN "slightlybad"
       ELSE IF over(40) THEN "bad"
       ELSE "verybad"

\* get_evaluation(wins, losses, game_count): r = wins / (wins + losses) is NaN
\* when both are zero, and every comparison with NaN is false
get_evaluation(wins, losses, game_count) ==
    LET over(hundredths) == wins + losses # 0 /\ 100 * wins > hundredths * (wins + losses)
    IN IF game_count < MATCHUP_MIN_GAMES THEN "none"
       ELSE IF over(60) THEN "verygood"
       ELSE IF over(56) THEN "good"
       ELSE IF over(52) THEN "slightlygood"
       ELSE IF over(48) THEN "ok"
       ELSE IF over(44) THEN "slightlybad"
       ELSE IF over(40) THEN "bad"
       ELSE "verybad"

\* real and adjusted counts a row of global_matchups / high_rated_matchups can hold
RealCounts == {0, 5, 10, 125, 249, 250}

AdjustedCounts == {0, 41, 45, 50, 55, 59}

MatchupRows ==
    {NoRow} \cup
    {[wins_real |-> a, wins_adjusted |-> c, losses_real |-> b, losses_adjusted |-> d] :
        a \in RealCounts, b \in RealCounts, c \in AdjustedCounts, d \in AdjustedCounts}

\* (a floor that is itself suspicious)
matchup_suspiciousOrEqual(wins_real, losses_real) == wins_real + losses_real <= MATCHUP_MIN_GAMES

\* suspicious: wins_real + losses_real < MATCHUP_MIN_GAMES
matchup_suspicious(wins_real, losses_real) == wins_real + losses_real < MATCHUP_MIN_GAMES

\* the Matchup of one (char_id, opp_char_id): the row mapped, or the default
Matchup(row) ==
    IF row = NoRow
    THEN [win_rate_real |-> NAN, win_rate_adjusted |-> NAN, game_count |-> 0,
          suspicious |-> TRUE, evaluation |-> "none"]
    ELSE [win_rate_real |-> Percent(row.wins_real, row.wins_real + row.losses_real),
          win_rate_adjusted |-> Percent(row.wins_adjusted, row.wins_adjusted + row.losses_adjusted),
          game_count |-> row.wins_real + row.losses_real,
          suspicious |-> matchup_suspicious(row.wins_real, row.losses_real),
          evaluation |-> get_evaluation(row.wins_adjusted, row.losses_adjusted,
                                        row.wins_real + row.losses_real)]

\* matchups_global_inner, one pair of characters
MatchupsGlobal ==
    /\ rd.step = "idle"
    /\ \E row \in MatchupRows :
        rd' = [step |-> "matchups_global", row |-> row, response |-> Matchup(row)]
    /\ UNCHANGED <<now, games, db, state, step, run_now, window, tx, tick_result>>

\* matchups_high_rated_inner, one pair of characters
MatchupsHighRated ==
    /\ rd.step = "idle"
    /\ \E row \in MatchupRows :
        rd' = [step |-> "matchups_high_rated", row |-> row, response |-> Matchup(row)]
    /\ UNCHANGED <<now, games, db, state, step, run_now, window, tx, tick_result>>

\* f64::INFINITY as a game count: above every minimum
INFINITY == 1000000000

\* rows of versus_matchups: win_rate in hundredths, game_count, pair_count
VersusRows ==
    {NoRow} \cup
    {[win_rate |-> w, game_count |-> g, pair_count |-> n] :
        w \in {30, 45, 50, 58, 70}, g \in {0, 100, 249, 250, 400}, n \in {0, 49, 50, 80}}

\* (the comparisons turned around)
versus_suspiciousInverted(pair_count, game_count) == pair_count > 50 \/ game_count > 250

\* suspicious: pair_count < 50 || game_count < 250
versus_suspicious(pair_count, game_count) == pair_count < 50 \/ game_count < 250

\* (the games of the row given to get_evaluation)
versus_evaluation_gamesOfRow(game_count) == game_count

\* the game count matchups_versus gives to get_evaluation: f64::INFINITY
versus_evaluation_games(game_count) == INFINITY

\* the VersusMatchup of (char_id, opp_char_id)
VersusMatchup(char_id, opp_char_id, row) ==
    IF char_id = opp_char_id
    THEN [win_rate |-> Float(50), game_count |-> 0, pair_count |-> 0,
          suspicious |-> FALSE, evaluation |-> "ok"]
    ELSE IF row = NoRow
    THEN [win_rate |-> NAN, game_count |-> 0, pair_count |-> 0,
          suspicious |-> TRUE, evaluation |-> "none"]
    ELSE [win_rate |-> Float(row.win_rate), game_count |-> row.game_count,
          pair_count |-> row.pair_count,
          suspicious |-> versus_suspicious(row.pair_count, row.game_count),
          evaluation |-> get_evaluation(row.win_rate, 100 - row.win_rate,
                                        versus_evaluation_games(row.game_count))]

\* matchups_versus, one pair of characters
MatchupsVersus ==
    /\ rd.step = "idle"
    /\ \E c \in Chars : \E o \in Chars : \E row \in VersusRows :
        rd' = [step |-> "matchups_versus", char_id |-> c, opp_char_id |-> o, row |-> row,
               response |-> VersusMatchup(c, o, row)]
    /\ UNCHANGED <<now, games, db, state, step, run_now, window, tx, tick_result>>

\* winner codes a row of games can hold: 1 and 2 are the sides, 0 and 3 are not
StoredWinners == {0, 1, 2, 3}

\* rows of games NATURAL JOIN game_ratings; deviations in quarters (1 is below
\* 0.5, 3 is not)
JoinedRows ==
    {[id_a |-> p[1][1], char_a |-> p[1][2], id_b |-> p[2][1], char_b |-> p[2][2], winner |-> w,
      value_a |-> va, deviation_a |-> da, value_b |-> 0, deviation_b |-> dv] :
        p \in MatchPairs, w \in StoredWinners, va \in {0, 1}, da \in {1, 3}, dv \in {1, 3}}

JoinedLogs == UNION {[1..n -> JoinedRows] : n \in 0..MaxGames}

\* match winner { 1 | 4 => .., 2 | 3 => .., _ => panic!("Bad winner") }
decode_winner(winner) ==
    IF winner \in {1, 4} THEN "win" ELSE IF winner \in {2, 3} THEN "loss" ELSE "panic"

\* deviation_a < 75.0 AND deviation_b < 75.0, in quarters
accuracy_side_a(deviation_a, deviation_b) == deviation_a < 300 /\ deviation_b < 300

\* deviation_a < 0.5 AND deviation_b < 0.5, in quarters
accuracy_side_b(deviation_a, deviation_b) == deviation_a < 2 /\ deviation_b < 2

\* the two SELECTs of player_rating_accuracy and their UNION (a set of rows)
accuracy_rows(log, id, char_id) ==
    {[own |-> Rating(log[i].value_a, log[i].deviation_a),
      opp |-> Rating(log[i].value_b, log[i].deviation_b),
      winner |-> log[i].winner] :
        i \in {j \in 1..Len(log) : /\ log[j].id_a = id /\ log[j].char_a = char_id
                                   /\ accuracy_side_a(log[j].deviation_a, log[j].deviation_b)}}
    \cup
    {[own |-> Rating(log[i].value_b, log[i].deviation_b),
      opp |-> Rating(log[i].value_a, log[i].deviation_a),
      winner |-> log[i].winner + 2] :
        i \in {j \in 1..Len(log) : /\ log[j].id_b = id /\ log[j].char_b = char_id
                                   /\ accuracy_side_b(log[j].deviation_a, log[j].deviation_b)}}

\* wins / total on f64, in thousandths: 0.0 / 0.0 is NaN
Ratio(wins, total) == IF total = 0 THEN NAN ELSE Float(DivRound(1000 * wins, total))

\* the operation did not return: a panic inside conn.run
Panic == [panic |-> TRUE, buckets |-> << >>]

\* (expected.min(1.0).max(0.0) * 10.0).round() as usize, expected in tenths
accuracy_bucket(e) == Max(0, Min(10, e))

\* player_rating_accuracy: 11 buckets of wins / (wins + losses) by expected outcome
player_rating_accuracy(log, id, char_id) ==
    LET rows == accuracy_rows(log, id, char_id)
        in_bucket(b, what) ==
            Cardinality({r \in rows : /\ accuracy_bucket(expected(r.own, r.opp)) = b
                                      /\ decode_winner(r.winner) = what})
    IN IF \E r \in rows : decode_winner(r.winner) = "panic" THEN Panic
       ELSE [panic |-> FALSE,
             buckets |-> [b \in 0..10 |->
                Ratio(in_bucket(b, "win"), in_bucket(b, "win") + in_bucket(b, "loss"))]]

Accuracy ==
    /\ rd.step = "idle"
    /\ \E log \in JoinedLogs : \E pc \in PlayerChars :
        rd' = [step |-> "accuracy", log |-> log, id |-> pc[1], char_id |-> pc[2],
               response |-> player_rating_accuracy(log, pc[1], pc[2])]
    /\ UNCHANGED <<now, games, db, state, step, run_now, window, tx, tick_result>>

\* (p * 100.0).round() as usize, p in tenths
outcomes_bucket(p) == 10 * p

\* outcomes: 101 buckets of wins / total by the expected outcome of side A;
\* get_mut(bucket).unwrap() panics on an index outside the buckets
outcomes(log) ==
    LET bucket(i) == outcomes_bucket(expected(Rating(log[i].value_a, log[i].deviation_a),
                                              Rating(log[i].value_b, log[i].deviation_b)))
    IN IF \E i \in 1..Len(log) : bucket(i) \notin 0..100 THEN Panic
       ELSE [panic |-> FALSE,
             buckets |-> [b \in 0..100 |->
                Ratio(Cardinality({i \in 1..Len(log) : bucket(i) = b /\ log[i].winner = 1}),
                      Cardinality({i \in 1..Len(log) : bucket(i) = b}))]]

Outcomes ==
    /\ rd.step = "idle"
    /\ \E log \in JoinedLogs :
        rd' = [step |-> "outcomes", log |-> log, response |-> outcomes(log)]
    /\ UNCHANGED <<now, games, db, state, step, run_now, window, tx, tick_result>>

\* the factor 173.718 of rating_experience, in ten-thousandths
SCALE == 1737180

\* the offset 1500.0 of rating_experience
OFFSET == 1500

\* millionths in one display point
MICRO == 1000000

\* a * 173.718 + 1500.0: stored value (hundredths) to display rating (millionths)
to_display(value) == value * SCALE + OFFSET * MICRO

\* value > (rating as f64 - 1500.0) / 173.718, the division carried to the other side
above_internal(value, rating) == value * SCALE > (rating - OFFSET) * MICRO

\* value < (rating as f64 - 1500.0) / 173.718
below_internal(value, rating) == value * SCALE < (rating - OFFSET) * MICRO

\* a display rating (millionths) rounded to a whole rating
RoundRating(x) == (x + MICRO \div 2) \div MICRO

\* stored values (hundredths) and deviations (1 is below LOW_DEVIATION, 3 is not)
\* of the game_ratings rows rating_experience can meet
ExperienceRows ==
    {[value_a |-> a, value_b |-> b, deviation_a |-> d[1], deviation_b |-> d[2]] :
        a \in {0, 78, 312}, b \in {0 - 250, 0, 250}, d \in {<<1, 1>>, <<1, 3>>}}

ExperienceLogs == UNION {[1..n -> ExperienceRows] : n \in 0..MaxGames}

\* (min_rating, max_rating) of a request
ExperienceRanges == {<<1000, 2100>>, <<1500, 2042>>, <<2042, 2100>>}

\* (deltas beyond the last bucket counted in the last bucket)
experience_bucketClamped(delta, width) == Max(0 - 30, Min(30, (2 * delta + width) \div (2 * width)))

\* ((delta + 12.5) / 25.0).floor(): width is 25 in the unit of delta
experience_bucket(delta, width) == (2 * delta + width) \div (2 * width)

\* RatingDiffStats from the counted sides D, each a pair <<side, delta>>
RatingDiffStats(D, unit) ==
    LET total == Cardinality(D)
        share(T) == [num |-> Cardinality(T), den |-> total]
    IN [total |-> total,
        over_100 |-> share({x \in D : x[2] > 100 * unit}),
        over_200 |-> share({x \in D : x[2] > 200 * unit}),
        over_300 |-> share({x \in D : x[2] > 300 * unit}),
        over_400 |-> share({x \in D : x[2] > 400 * unit}),
        below_100 |-> share({x \in D : x[2] < 0 - 100 * unit}),
        below_200 |-> share({x \in D : x[2] < 0 - 200 * unit}),
        below_300 |-> share({x \in D : x[2] < 0 - 300 * unit}),
        below_400 |-> share({x \in D : x[2] < 0 - 400 * unit}),
        difference_amounts |-> [r \in (0 - 30)..30 |-> r * 25],
        difference_counts |-> [r \in (0 - 30)..30 |->
            [num |-> 100 * Cardinality({x \in D : experience_bucket(x[2], 25 * unit) = r}),
             den |-> total]]]

\* the game sides rating_experience counts, each with its delta in millionths
\* of a display point: the sides whose display rating is inside
\* (min_rating, max_rating)
experience_sides(log, min_rating, max_rating) ==
    LET inside(v) == to_display(v) > min_rating * MICRO /\ to_display(v) < max_rating * MICRO
        fetched == {i \in 1..Len(log) :
                        /\ log[i].deviation_a < LOW_DEVIATION /\ log[i].deviation_b < LOW_DEVIATION
                        /\ \/ above_internal(log[i].value_a, min_rating) /\ below_internal(log[i].value_a, max_rating)
                           \/ above_internal(log[i].value_b, min_rating) /\ below_internal(log[i].value_b, max_rating)}
    IN {<<<<i, "a">>, to_display(log[i].value_b) - to_display(log[i].value_a)>> :
            i \in {j \in fetched : inside(log[j].value_a)}}
        \cup {<<<<i, "b">>, to_display(log[i].value_a) - to_display(log[i].value_b)>> :
            i \in {j \in fetched : inside(log[j].value_b)}}

rating_experience(log, min_rating, max_rating) ==
    RatingDiffStats(experience_sides(log, min_rating, max_rating), MICRO)

RatingExperience ==
    /\ rd.step = "idle"
    /\ \E log \in ExperienceLogs : \E r \in ExperienceRanges :
        rd' = [step |-> "rating_experience", log |-> log, min_rating |-> r[1], max_rating |-> r[2],
               response |-> rating_experience(log, r[1], r[2])]
    /\ UNCHANGED <<now, games, db, state, step, run_now, window, tx, tick_result>>

\* hundredths in one stored unit
CENTI == 100

\* game_ratings rows with the players of both sides, for rating_experience_player
PlayerExperienceRows ==
    {[id_a |-> p[1], id_b |-> p[2], value_a |-> a, value_b |-> b,
      deviation_a |-> d[1], deviation_b |-> d[2]] :
        p \in {<<1, 2>>, <<2, 1>>, <<1, 1>>, <<2, 3>>},
        a \in {0, 312}, b \in {0 - 250, 1300}, d \in {<<1, 1>>, <<1, 3>>}}

PlayerExperienceLogs == UNION {[1..n -> PlayerExperienceRows] : n \in 0..MaxGames}

\* the game sides rating_experience_player counts for player id, each with its
\* delta: the difference of the stored values, in hundredths
experience_player_sides(log, id) ==
    LET fetched == {i \in 1..Len(log) :
                        /\ log[i].deviation_a < LOW_DEVIATION /\ log[i].deviation_b < LOW_DEVIATION
                        /\ (log[i].id_a = id \/ log[i].id_b = id)}
    IN {<<<<i, "a">>, log[i].value_b - log[i].value_a>> : i \in {j \in fetched : log[j].id_a = id}}
        \cup {<<<<i, "b">>, log[i].value_a - log[i].value_b>> : i \in {j \in fetched : log[j].id_b = id}}

rating_experience_player(log, id) == RatingDiffStats(experience_player_sides(log, id), CENTI)

RatingExperiencePlayer ==
    /\ rd.step = "idle"
    /\ \E log \in PlayerExperienceLogs :
        rd' = [step |-> "rating_experience_player", log |-> log, id |-> 1,
               response |-> rating_experience_player(log, 1)]
    /\ UNCHANGED <<now, games, db, state, step, run_now, window, tx, tick_result>>

\* longest history a request fetches (LIMIT :game_count)
MaxHistory == 3

\* the rows get_player_char_history fetches, newest first: two opponents that
\* are one player with two characters; winner 1 = won, 2 = lost, 0 = neither
HistoryRows ==
    {[opponent_id |-> 2, opponent_char |-> c, winner |-> w, floor |-> v,
      opponent_name |-> IF v = 1 THEN "old" ELSE "new", opponent_vip |-> v = 1,
      opponent_cheater |-> FALSE, own_value |-> v, own_deviation |-> 2,
      opponent_value |-> 0, opponent_deviation |-> 2] :
        c \in {1, 2}, w \in {0, 1, 2}, v \in {1, 2}}

HistoryLogs == UNION {[1..n -> HistoryRows] : n \in 0..MaxHistory}

\* (a merge on the opponent's id alone)
add_to_grouped_setsById(sets, g, timestamp, winner) ==
    LET change == rating_change(Rating(g.own_value, g.own_deviation),
                                       Rating(g.opponent_value, g.opponent_deviation),
                                       IF winner THEN 10 ELSE 0)
    IN IF sets # << >> /\ sets[Len(sets)].opponent_id = g.opponent_id
       THEN [sets EXCEPT ![Len(sets)] =
                [@ EXCEPT !.timestamp = timestamp,
                          !.own_value = g.own_value, !.own_deviation = g.own_deviation,
                          !.opponent_value = g.opponent_value,
                          !.opponent_deviation = g.opponent_deviation,
                          !.rating_change_sequence = Append(@, change),
                          !.result_wins = IF winner THEN @ + 1 ELSE @,
                          !.result_losses = IF winner THEN @ ELSE @ + 1]]
       ELSE Append(sets,
                [timestamp |-> timestamp, own_value |-> g.own_value, own_deviation |-> g.own_deviation,
                 floor |-> g.floor, opponent_name |-> g.opponent_name,
                 opponent_vip |-> g.opponent_vip, opponent_cheater |-> g.opponent_cheater,
                 opponent_id |-> g.opponent_id, opponent_char |-> g.opponent_char,
                 opponent_value |-> g.opponent_value, opponent_deviation |-> g.opponent_deviation,
                 rating_change_sequence |-> <<change>>,
                 result_wins |-> IF winner THEN 1 ELSE 0,
                 result_losses |-> IF winner THEN 0 ELSE 1])

\* (a merge that counts every game as a win)
add_to_grouped_setsAllWins(sets, g, timestamp, winner) ==
    LET change == rating_change(Rating(g.own_value, g.own_deviation),
                                       Rating(g.opponent_value, g.opponent_deviation),
                                       IF winner THEN 10 ELSE 0)
    IN IF /\ sets # << >>
          /\ sets[Len(sets)].opponent_id = g.opponent_id
          /\ sets[Len(sets)].opponent_char = g.opponent_char
       THEN [sets EXCEPT ![Len(sets)] =
                [@ EXCEPT !.timestamp = timestamp,
                          !.own_value = g.own_value, !.own_deviation = g.own_deviation,
                          !.opponent_value = g.opponent_value,
                          !.opponent_deviation = g.opponent_deviation,
                          !.rating_change_sequence = Append(@, change),
                          !.result_wins = @ + 1]]
       ELSE Append(sets,
                [timestamp |-> timestamp, own_value |-> g.own_value, own_deviation |-> g.own_deviation,
                 floor |-> g.floor, opponent_name |-> g.opponent_name,
                 opponent_vip |-> g.opponent_vip, opponent_cheater |-> g.opponent_cheater,
                 opponent_id |-> g.opponent_id, opponent_char |-> g.opponent_char,
                 opponent_value |-> g.opponent_value, opponent_deviation |-> g.opponent_deviation,
                 rating_change_sequence |-> <<change>>,
                 result_wins |-> IF winner THEN 1 ELSE 0,
                 result_losses |-> IF winner THEN 0 ELSE 1])

\* add_to_grouped_sets: the list of RawPlayerSet after the call
add_to_grouped_sets(sets, g, timestamp, winner) ==
    LET change == rating_change(Rating(g.own_value, g.own_deviation),
                                       Rating(g.opponent_value, g.opponent_deviation),
                                       IF winner THEN 10 ELSE 0)
    IN IF /\ sets # << >>
          /\ sets[Len(sets)].opponent_id = g.opponent_id
          /\ sets[Len(sets)].opponent_char = g.opponent_char
       THEN [sets EXCEPT ![Len(sets)] =
                [@ EXCEPT !.timestamp = timestamp,
                          !.own_value = g.own_value, !.own_deviation = g.own_deviation,
                          !.opponent_value = g.opponent_value,
                          !.opponent_deviation = g.opponent_deviation,
                          !.rating_change_sequence = Append(@, change),
                          !.result_wins = IF winner THEN @ + 1 ELSE @,
                          !.result_losses = IF winner THEN @ ELSE @ + 1]]
       ELSE Append(sets,
                [timestamp |-> timestamp, own_value |-> g.own_value, own_deviation |-> g.own_deviation,
                 floor |-> g.floor, opponent_name |-> g.opponent_name,
                 opponent_vip |-> g.opponent_vip, opponent_cheater |-> g.opponent_cheater,
                 opponent_id |-> g.opponent_id, opponent_char |-> g.opponent_char,
                 opponent_value |-> g.opponent_value, opponent_deviation |-> g.opponent_deviation,
                 rating_change_sequence |-> <<change>>,
                 result_wins |-> IF winner THEN 1 ELSE 0,
                 result_losses |-> IF winner THEN 0 ELSE 1])

\* (a history that groups whatever the flag says)
HistoryAlwaysGrouped(group_games) == TRUE

\* if group_games { add_to_grouped_sets(..) }
HistoryGrouped(group_games) == group_games

\* the while loop of get_player_char_history over the first n fetched rows
\* (ORDER BY timestamp DESC): the sets so far, or the panic of a bad winner
RECURSIVE HistoryUpTo(_, _, _)
HistoryUpTo(rows, group_games, n) ==
    IF n = 0 THEN [panic |-> FALSE, history |-> << >>]
    ELSE LET before == HistoryUpTo(rows, group_games, n - 1)
         IN IF before.panic \/ ~HistoryGrouped(group_games) THEN before
            ELSE IF decode_winner(rows[n].winner) = "panic" THEN [panic |-> TRUE, history |-> << >>]
            ELSE [panic |-> FALSE,
                  history |-> add_to_grouped_sets(before.history, rows[n], MaxHistory - n,
                                                  decode_winner(rows[n].winner) = "win")]

\* get_player_char_history: the sets before to_formated_set
get_player_char_history(rows, group_games) == HistoryUpTo(rows, group_games, Len(rows))

GetPlayerCharHistory ==
    /\ rd.step = "idle"
    /\ \E rows \in HistoryLogs : \E group_games \in BOOLEAN :
        rd' = [step |-> "char_history", rows |-> rows, group_games |-> group_games,
               response |-> get_player_char_history(rows, group_games)]
    /\ UNCHANGED <<now, games, db, state, step, run_now, window, tx, tick_result>>

\* contents of versus_matchups for the whole matrix: per ordered pair (the
\* mirror pairs too) no row, a row below both minimums or a row above them
VersusTables ==
    [Chars \X Chars -> {NoRow, [win_rate |-> 70, game_count |-> 100, pair_count |-> 10],
                                [win_rate |-> 45, game_count |-> 400, pair_count |-> 80]}]

\* matchups_versus: one VersusCharacterMatchups per character, one entry per opponent
matchups_versus(table) ==
    [c \in Chars |-> [o \in Chars |-> VersusMatchup(c, o, table[<<c, o>>])]]

MatchupsVersusAll ==
    /\ rd.step = "idle"
    /\ \E table \in VersusTables :
        rd' = [step |-> "matchups_versus_all", table |-> table, response |-> matchups_versus(table)]
    /\ UNCHANGED <<now, games, db, state, step, run_now, window, tx, tick_result>>

\* LIMIT 100 of the two ranking queries
LIMIT == 100

\* numbers of rows of a ranking table: around the limit and far from it
RankingSizes == {0, 1, 2, 99, 100, 101, 150, 350}

\* contents of the stored rank column of row i of n: in order, reversed,
\* one value everywhere, with gaps
RankColumns(n) ==
    {[i \in 1..n |-> i], [i \in 1..n |-> n + 1 - i], [i \in 1..n |-> 7], [i \in 1..n |-> 2 * i]}

\* ranking_global / ranking_character in storage order: characters alternate
RankingTables ==
    UNION {{[i \in 1..n |-> [rank |-> ranks[i], id |-> i, char_id |-> (i % 2) + 1]] :
                ranks \in RankColumns(n)} : n \in RankingSizes}

\* NATURAL JOIN player_ratings NATURAL JOIN players: a ranking row without
\* its player row is dropped (every `missing`-th row, none when 0)
RankingJoined(table, missing) ==
    SelectSeq(table, LAMBDA r : missing = 0 \/ r.id % missing # 0)

RankingLimit(rows) == SubSeq(rows, 1, Min(Len(rows), LIMIT))

\* (pos taken from the stored rank column)
RankingPlayersStored(rows) ==
    [i \in 1..Len(rows) |-> [pos |-> rows[i].rank, id |-> rows[i].id, char_id |-> rows[i].char_id]]

\* the loop over the rows: i starts at 1 and is the pos of the pushed entry
RankingPlayers(rows) ==
    [i \in 1..Len(rows) |-> [pos |-> i, id |-> rows[i].id, char_id |-> rows[i].char_id]]

top_all_inner(table, missing) ==
    RankingPlayers(RankingLimit(RankingJoined(table, missing)))

top_char_inner(table, missing, char_id) ==
    RankingPlayers(RankingLimit(SelectSeq(RankingJoined(table, missing),
                                          LAMBDA r : r.char_id = char_id)))

TopAll ==
    /\ rd.step = "idle"
    /\ \E table \in RankingTables, missing \in {0, 3} :
        rd' = [step |-> "top_all", table |-> table, missing |-> missing,
               response |-> top_all_inner(table, missing)]
    /\ UNCHANGED <<now, games, db, state, step, run_now, window, tx, tick_result>>

TopChar ==
    /\ rd.step = "idle"
    /\ \E table \in RankingTables, missing \in {0, 3}, char_id \in Chars :
        rd' = [step |-> "top_char", table |-> table, missing |-> missing, char_id |-> char_id,
               response |-> top_char_inner(table, missing, char_id)]
    /\ UNCHANGED <<now, games, db, state, step, run_now, window, tx, tick_result>>

\* the floor of each player in players
PlayerFloors == [{q[1] : q \in PlayerChars} -> {1, 2}]

\* player_ratings: per player and character no row, or a stored value
\* (hundredths) with a deviation (1 is below LOW_DEVIATION, 3 is not)
DistributionTables ==
    [PlayerChars -> {NoRow, [value |-> 0, deviation |-> 1], [value |-> 8000, deviation |-> 1],
                            [value |-> 0 - 3000, deviation |-> 1], [value |-> 0, deviation |-> 3]}]

\* ((value + 25.0) / 50.0).floor() of a stored value in hundredths
distribution_bucket(value) == (value + 25 * CENTI) \div (50 * CENTI)

\* (min_bucket..max_bucket): the buckets from min_bucket up to, not including, max_bucket
distribution_range(min_bucket, max_bucket) ==
    [k \in 1..(max_bucket - min_bucket) |-> min_bucket + k - 1]

\* the operation did not return: min().unwrap() on no bucket
DistributionPanic == [panic |-> TRUE, ratings |-> << >>, floors |-> << >>, overall |-> << >>]

\* floor_rating_distribution over players NATURAL JOIN player_ratings
floor_rating_distribution(floor, ratings) ==
    LET rows == {q \in PlayerChars : ratings[q] # NoRow /\ ratings[q].deviation < LOW_DEVIATION}
        bucket(q) == distribution_bucket(ratings[q].value)
        min_bucket == CHOOSE b \in {bucket(q) : q \in rows} : \A q \in rows : b <= bucket(q)
        max_bucket == CHOOSE b \in {bucket(q) : q \in rows} : \A q \in rows : b >= bucket(q)
        range == distribution_range(min_bucket, max_bucket)
    IN IF rows = {} THEN DistributionPanic
       ELSE [panic |-> FALSE,
             ratings |-> [k \in DOMAIN range |-> range[k] * 50],
             floors |-> [f \in {floor[q[1]] : q \in rows} |->
                [k \in DOMAIN range |->
                    Cardinality({q \in rows : floor[q[1]] = f /\ bucket(q) = range[k]})]],
             overall |-> [k \in DOMAIN range |->
                    Cardinality({q \in rows : bucket(q) = range[k]})]]

FloorRatingDistribution ==
    /\ rd.step = "idle"
    /\ \E floor \in PlayerFloors, ratings \in DistributionTables :
        rd' = [step |-> "floor_rating_distribution", floor |-> floor, ratings |-> ratings,
               response |-> floor_rating_distribution(floor, ratings)]
    /\ UNCHANGED <<now, games, db, state, step, run_now, window, tx, tick_result>>

\* the response of a query is sent
QueryReturns ==
    /\ rd.step # "idle"
    /\ rd' = NoRequest
    /\ UNCHANGED <<now, games, db, state, step, run_now, window, tx, tick_result>>

Next ==
    \/ Advance
    \/ RecordMatch
    \/ Tick
    \/ DoUpdate
    \/ DoWatermarks
    \/ DoRebuild
    \/ Commit
    \/ Fail

Spec == Init /\ [][Next]_vars

\* the engine with a request of the read-serving layer running beside it
NextReaders ==
    \/ Next
    \/ BeginRequest
    \/ ReadOtherCharacters
    \/ ReadCharacterData
    \/ ReadMatchups
    \/ Respond
    \/ RequestFails
    \/ Stats
    \/ AddHit

SpecReaders == Init /\ [][NextReaders]_vars

\* the queries of api.rs on the tables they can meet
NextQueries ==
    \/ HighestRated
    \/ MatchupsGlobal
    \/ MatchupsHighRated
    \/ MatchupsVersus
    \/ Accuracy
    \/ Outcomes
    \/ RatingExperience
    \/ GetPlayerCharHistory
    \/ RatingExperiencePlayer
    \/ FloorRatingDistribution
    \/ MatchupsVersusAll
    \/ TopAll
    \/ TopChar
    \/ QueryReturns

SpecQueries == Init /\ [][NextQueries]_vars

\* ===================================================================== claims
\* number of snapshot rows the committed store holds for game i
RowsOf(i) == Cardinality({k \in 1..Len(db.game_ratings) : db.game_ratings[k].game = i})

\* a step that commits a run
CommitStep == db'.run = db.run + 1

\* a step that abandons a run
AbortStep == state = "Running" /\ state' = "Idle" /\ db'.run = db.run

\* C1: every match of the log is processed (snapshotted, applied, counted) by at
\* most one committed run: the committed store never holds two snapshot rows
\* of one match, each committed run appending one row per match it read.
C1_ProcessedAtMostOnce == \A i \in 1..Len(games) : RowsOf(i) <= 1

\* C2: a commit sets last_update to last_update + RATING_PERIOD *
\* floor((now - last_update) / RATING_PERIOD), now being the time the run
\* started; last_update never decreases, never exceeds the clock and keeps its
\* residue modulo RATING_PERIOD.
C2_LastUpdateWholePeriods ==
    /\ [](db.last_update <= now /\ db.last_update % RATING_PERIOD = 0)
    /\ [][/\ db'.last_update >= db.last_update
          /\ db'.last_update % RATING_PERIOD = db.last_update % RATING_PERIOD
          /\ CommitStep =>
                db'.last_update = db.last_update
                    + RATING_PERIOD * ((run_now - db.last_update) \div RATING_PERIOD)
          /\ ~CommitStep => db'.last_update = db.last_update]_vars

\* a run that started between two period boundaries has committed the earlier one
C2_Witness ==
    /\ db.run >= 1
    /\ state = "Idle"
    /\ db.last_update > 0
    /\ run_now = db.last_update + 1

C4_FailureKeepsWindow ==
    [][/\ AbortStep =>
            /\ db' = db
            /\ now' - db'.last_update >= RATING_PERIOD
            /\ \A i \in window : i <= Len(games') /\ games'[i].timestamp > db'.last_update
       /\ Len(games') >= Len(games) /\ SubSeq(games', 1, Len(games)) = games
       /\ (state = "Idle" /\ state' = "Running") =>
            window' = {i \in 1..Len(games) : games[i].timestamp > db.last_update}]_vars

\* the first run read a match and was abandoned: nothing committed
C4_Witness ==
    /\ state = "Idle"
    /\ tick_result = "started"
    /\ db.run = 0
    /\ db.last_update = 0
    /\ \E i \in 1..Len(games) : games[i].timestamp > db.last_update

\* C5: a tick that arrives while a run is in progress starts no second run
\* and changes no state of the engine.
C5_TickWhileRunningIsNoOp ==
    [][(Tick /\ state = "Running") =>
        UNCHANGED <<db, tx, state, step, window, run_now, games, now>>]_vars

\* a tick arrived in the middle of a run
C5_Witness ==
    /\ tick_result = "busy"
    /\ state = "Running"
    /\ step = "rebuild"

\* games a player_matchups row set accounts for
RECURSIVE MatchupGames(_, _)
MatchupGames(m, cs) ==
    IF cs = {} THEN 0
    ELSE LET c == CHOOSE x \in cs : TRUE
         IN m[c].wins_real + m[c].losses_real + MatchupGames(m, cs \ {c})

\* what every committed store satisfies: the row of a player-character, its
\* entry among the player's characters and its matchup rows tell the same games
OneRun(id, char_id, other_characters, data, matchups) ==
    /\ \E e \in other_characters :
        /\ e.char_id = char_id
        /\ e.game_count = data.game_count
        /\ e.rating_value = data.rating_value
        /\ e.rating_deviation = data.rating_deviation
    /\ MatchupGames(matchups, Chars) = data.game_count

\* C6: what a request of the read-serving layer returns belongs to one
\* committed run: the parts of a get_player_data_char response (the player's
\* characters, the character's row, its matchups) agree as they do in every
\* committed store, never mixing two runs.
C6_ReaderSeesOneRun ==
    (rd.step = "done" /\ rd.response # NoRow) =>
        OneRun(rd.id, rd.char_id, rd.response.other_characters, rd.response.data, rd.response.matchups)

\* a watermark is kept or replaced by a strictly greater value
Monotonic(old, new) == new = old \/ old = NoRow \/ (new # NoRow /\ new.value > old.value)

\* C7: across runs top_rating.value and top_defeated.opponent_rating never
\* decrease, and a watermark (value, deviation, opponent, timestamp) changes
\* only when the new value is strictly greater than the stored one.
C7_WatermarksMonotonic ==
    [][\A pc \in PlayerChars :
        db.player_ratings[pc] # NoRow =>
            /\ db'.player_ratings[pc] # NoRow
            /\ Monotonic(db.player_ratings[pc].top_rating, db'.player_ratings[pc].top_rating)
            /\ Monotonic(db.player_ratings[pc].top_defeated, db'.player_ratings[pc].top_defeated)]_vars

\* a later win over an opponent rated exactly the stored best win left the
\* watermark and its timestamp alone
C7_Witness ==
    \E pc \in PlayerChars : \E k \in 1..Len(db.game_ratings) :
        LET row == db.player_ratings[pc]
            g == games[db.game_ratings[k].game]
            opp_value == IF SideA(g) = pc THEN db.game_ratings[k].value_b ELSE db.game_ratings[k].value_a
        IN /\ row # NoRow
           /\ row.top_defeated # NoRow
           /\ Involves(g, pc) /\ WonBy(g, pc)
           /\ opp_value = row.top_defeated.value
           /\ g.timestamp > row.top_defeated.timestamp

\* C8: a commit leaves every earlier snapshot row as it was, and for every
\* match the run processed the store then holds exactly one snapshot row,
\* with the ratings both sides had when the run started.
C8_OneSnapshotPerMatch ==
    [][CommitStep =>
        /\ Len(db'.game_ratings) >= Len(db.game_ratings)
        /\ SubSeq(db'.game_ratings, 1, Len(db.game_ratings)) = db.game_ratings
        /\ \A i \in window :
            /\ Cardinality({k \in 1..Len(db'.game_ratings) : db'.game_ratings[k].game = i}) = 1
            /\ \A k \in 1..Len(db'.game_ratings) :
                db'.game_ratings[k].game = i =>
                    /\ db'.game_ratings[k].value_a = RatingOf(db.player_ratings, SideA(games[i])).value
                    /\ db'.game_ratings[k].deviation_a = RatingOf(db.player_ratings, SideA(games[i])).deviation
                    /\ db'.game_ratings[k].value_b = RatingOf(db.player_ratings, SideB(games[i])).value
                    /\ db'.game_ratings[k].deviation_b = RatingOf(db.player_ratings, SideB(games[i])).deviation]_vars

\* C9: a committed run changes, of a player-character that has a row and no
\* match in the window, nothing but the deviation, and does not lower it.
C9_PureDecay ==
    [][CommitStep =>
        \A pc \in PlayerChars :
            (db.player_ratings[pc] # NoRow /\ \A i \in window : ~Involves(games[i], pc)) =>
                /\ db'.player_ratings[pc] # NoRow
                /\ db'.player_ratings[pc].deviation >= db.player_ratings[pc].deviation
                /\ db'.player_ratings[pc] =
                    [db.player_ratings[pc] EXCEPT !.deviation = db'.player_ratings[pc].deviation]]_vars

\* a player-character whose deviation has grown since its last game
C9_Witness ==
    /\ db.run >= 2
    /\ \E pc \in PlayerChars :
        /\ db.player_ratings[pc] # NoRow
        /\ db.player_ratings[pc].top_rating # NoRow
        /\ db.player_ratings[pc].value = db.player_ratings[pc].top_rating.value
        /\ db.player_ratings[pc].deviation > db.player_ratings[pc].top_rating.deviation

\* C10: every rating row, committed or being written, has
\* 0 <= floor <= deviation <= ceiling.
C10_DeviationBounded ==
    \A d \in {db, tx} : \A pc \in PlayerChars :
        d.player_ratings[pc] # NoRow =>
            /\ 0 <= DEV_FLOOR
            /\ DEV_FLOOR <= d.player_ratings[pc].deviation
            /\ d.player_ratings[pc].deviation <= DEV_CEILING

\* a player-character with games has decayed back to the ceiling
C10_Witness ==
    \E pc \in PlayerChars :
        /\ db.player_ratings[pc] # NoRow
        /\ db.player_ratings[pc].wins + db.player_ratings[pc].losses >= 1
        /\ db.player_ratings[pc].deviation = DEV_CEILING

\* the permutations of the log that move only matches of the window
WindowPerms(log, win) ==
    {p \in [1..Len(log) -> 1..Len(log)] :
        /\ \A i, j \in 1..Len(log) : p[i] = p[j] => i = j
        /\ \A i \in 1..Len(log) : i \notin win => p[i] = i}

PermuteLog(log, p) == [i \in 1..Len(log) |-> log[p[i]]]

\* the snapshot rows a run appended, each with the match it belongs to
NewSnapshots(before, after, log) ==
    {<<log[after.game_ratings[k].game], [after.game_ratings[k] EXCEPT !.game = 0]>> :
        k \in (Len(before.game_ratings) + 1)..Len(after.game_ratings)}

\* C11: the result of a run does not depend on the order of the matches
\* inside its window: on every permutation of the window's matches the
\* updater writes the same ratings and win/loss counts and the same snapshot
\* of every match.
C11_OrderIndependent ==
    (state = "Running" /\ step = "update") =>
        \A p \in WindowPerms(games, window) :
            LET periods == ElapsedPeriods(run_now, db.last_update)
                one == UpdateRatings(tx, games, window, periods)
                other == UpdateRatings(tx, PermuteLog(games, p), window, periods)
            IN /\ other.player_ratings = one.player_ratings
               /\ Len(other.game_ratings) = Len(one.game_ratings)
               /\ NewSnapshots(tx, other, PermuteLog(games, p)) = NewSnapshots(tx, one, games)

\* a run is about to update a player-character that won one match of the
\* window and lost another, against different opponents
C11_Witness ==
    /\ state = "Running" /\ step = "update"
    /\ \E i, j \in window : \E pc \in PlayerChars :
        /\ Involves(games[i], pc) /\ Involves(games[j], pc)
        /\ WonBy(games[i], pc) /\ ~WonBy(games[j], pc)
        /\ Opponent(games[i], pc) # Opponent(games[j], pc)

\* C12: for every player-character win_count + loss_count (the game_count of
\* RankingPlayer::from_db) is the number of distinct matches of the log that
\* involve it and have been processed by a committed run.
C12_CountsDistinctMatches ==
    \A pc \in PlayerChars :
        LET processed == {i \in 1..Len(games) : Involves(games[i], pc) /\ RowsOf(i) >= 1}
        IN IF db.player_ratings[pc] = NoRow
           THEN processed = {}
           ELSE db.player_ratings[pc].wins + db.player_ratings[pc].losses = Cardinality(processed)

\* the tables and the log the engine owns are as they were
EngineTablesKept(before, after) ==
    /\ games' = games
    /\ after.player_ratings = before.player_ratings
    /\ after.game_ratings = before.game_ratings
    /\ after.last_update = before.last_update

\* C13: no step of the read-serving layer (a statement of a request, its
\* response or its failure, stats, add_hit) and no step of the aggregation
\* rebuild changes the match log, the rating table, the snapshot table or
\* last_update, in the committed store or in the run's transaction.
C13_ReadsLeaveEngineState ==
    [][/\ (rd' # rd \/ AddHit) => (EngineTablesKept(db, db') /\ EngineTablesKept(tx, tx'))
       /\ (step = "rebuild" /\ step' = "commit") =>
            (EngineTablesKept(db, db') /\ EngineTablesKept(tx, tx'))]_vars

\* a request failed (no such player-character) while a run had rebuilt its
\* aggregates over a non-empty snapshot table
C13_Witness ==
    /\ rd.step = "done" /\ rd.response = NoRow
    /\ state = "Running" /\ step = "commit"
    /\ Len(tx.game_ratings) >= 1
    /\ tx.ranking_global # db.ranking_global

\* C15: get_player_highest_rated_character returns None exactly when the
\* player has no rating row, and otherwise a character of the player whose
\* value - 3 * deviation is maximal among the player's rows.
C15_HighestRated ==
    rd.step = "highest_rated" =>
        LET S == CharsOf(rd.ratings, rd.id)
            row(c) == rd.ratings[<<rd.id, c>>]
        IN /\ rd.response = NoRow <=> S = {}
           /\ S # {} =>
                /\ rd.response.char_id \in S
                /\ \A c \in S :
                    row(rd.response.char_id).value - 3 * row(rd.response.char_id).deviation
                        >= row(c).value - 3 * row(c).deviation

\* the character returned is not the one with the highest raw value
C15_Witness ==
    /\ rd.step = "highest_rated"
    /\ rd.response # NoRow
    /\ \E c \in CharsOf(rd.ratings, rd.id) :
        rd.ratings[<<rd.id, c>>].value > rd.ratings[<<rd.id, rd.response.char_id>>].value

\* C16: in the global and the high-rated matchup table a pair is suspicious
\* exactly when it has no row or wins_real + losses_real is below
\* MATCHUP_MIN_GAMES: 10 games are suspicious, 250 and more are not.
C16_SuspiciousBelowMinimum ==
    rd.step \in {"matchups_global", "matchups_high_rated"} =>
        /\ rd.response.suspicious <=>
            (rd.row = NoRow \/ rd.row.wins_real + rd.row.losses_real < MATCHUP_MIN_GAMES)
        /\ (rd.row # NoRow /\ rd.row.wins_real + rd.row.losses_real = 10) => rd.response.suspicious
        /\ (rd.row # NoRow /\ rd.row.wins_real + rd.row.losses_real >= 250) => ~rd.response.suspicious

\* a pair with exactly the minimum number of games is not suspicious
C16_Witness ==
    /\ rd.step = "matchups_high_rated"
    /\ rd.row # NoRow
    /\ rd.row.wins_real + rd.row.losses_real = MATCHUP_MIN_GAMES
    /\ ~rd.response.suspicious

\* C17: in the versus table a pair of distinct characters whose row is below
\* the minimum distinct-pair count (50) and below the minimum total game
\* count (250) is flagged suspicious.
C17_VersusSuspicious ==
    (rd.step = "matchups_versus" /\ rd.char_id # rd.opp_char_id /\ rd.row # NoRow) =>
        ((rd.row.pair_count < 50 /\ rd.row.game_count < 250) => rd.response.suspicious)

\* a pair of distinct characters just below both minimums is flagged
C17_Witness ==
    /\ rd.step = "matchups_versus"
    /\ rd.char_id # rd.opp_char_id
    /\ rd.row # NoRow
    /\ rd.row.pair_count = 49 /\ rd.row.game_count = 249
    /\ rd.response.suspicious

\* C18: a matchup row whose rate has a zero denominator (no real games, or
\* no adjusted games) is reported as insufficient data: the rate is the
\* marker and the evaluation is "none", never a grade.
C18_ZeroDenominatorMarked ==
    (rd.step \in {"matchups_global", "matchups_high_rated"} /\ rd.row # NoRow) =>
        /\ rd.row.wins_real + rd.row.losses_real = 0 =>
            (rd.response.win_rate_real = NAN /\ rd.response.evaluation = "none")
        /\ rd.row.wins_adjusted + rd.row.losses_adjusted = 0 =>
            (rd.response.win_rate_adjusted = NAN /\ rd.response.evaluation = "none")

\* the rows of a log whose winner is one of the two sides
RECURSIVE Recognized(_)
Recognized(log) ==
    IF log = << >> THEN << >>
    ELSE IF Head(log).winner \in {1, 2} THEN <<Head(log)>> \o Recognized(Tail(log))
    ELSE Recognized(Tail(log))

\* C19: a match with a winner code that is neither side is not counted as a
\* normal result and does not crash the operation: the accuracy query and the
\* outcomes query return what they return on the log without such matches.
C19_BadWinnerNotCounted ==
    /\ rd.step = "accuracy" =>
        /\ ~rd.response.panic
        /\ rd.response = player_rating_accuracy(Recognized(rd.log), rd.id, rd.char_id)
    /\ rd.step = "outcomes" =>
        /\ ~rd.response.panic
        /\ rd.response = outcomes(Recognized(rd.log))

\* every game with its two sides exchanged
SwapSides(log) ==
    [i \in 1..Len(log) |->
        [id_a |-> log[i].id_b, char_a |-> log[i].char_b, id_b |-> log[i].id_a, char_b |-> log[i].char_a,
         winner |-> 3 - log[i].winner,
         value_a |-> log[i].value_b, deviation_a |-> log[i].deviation_b,
         value_b |-> log[i].value_a, deviation_b |-> log[i].deviation_a]]

\* C20: the accuracy query returns the same buckets when the two sides of
\* every game of the log are exchanged (all winners being one of the sides).
C20_AccuracySideSymmetric ==
    (rd.step = "accuracy" /\ Recognized(rd.log) = rd.log) =>
        rd.response = player_rating_accuracy(SwapSides(rd.log), rd.id, rd.char_id)

\* the factor of the specification, 173.7178, in ten-thousandths
SpecScale == 1737178

\* the sides rating_experience counts when ratings are converted with the
\* factor and offset of the specification
SidesOnSpecScale(log, min_rating, max_rating) ==
    LET inside(v) == v * SpecScale + 1500 * MICRO > min_rating * MICRO
                     /\ v * SpecScale + 1500 * MICRO < max_rating * MICRO
        low(i) == log[i].deviation_a < LOW_DEVIATION /\ log[i].deviation_b < LOW_DEVIATION
    IN Cardinality({i \in 1..Len(log) : low(i) /\ inside(log[i].value_a)})
       + Cardinality({i \in 1..Len(log) : low(i) /\ inside(log[i].value_b)})

\* C21: the conversion between the stored and the display scale uses factor
\* 173.7178 and offset 1500 in both directions: a stored value is above or
\* below a rating taken to the stored scale exactly when its display rating
\* is, every stored value is shown as value * 173.7178 + 1500 within
\* rounding, and rating_experience counts the sides that are inside the
\* requested range on that scale.
C21_ScaleRoundTrip ==
    rd.step = "rating_experience" =>
        /\ \A x \in {rd.min_rating, rd.max_rating} : \A i \in 1..Len(rd.log) :
            /\ above_internal(rd.log[i].value_a, x) <=> to_display(rd.log[i].value_a) > x * MICRO
            /\ below_internal(rd.log[i].value_a, x) <=> to_display(rd.log[i].value_a) < x * MICRO
        /\ \A i \in 1..Len(rd.log) :
            RoundRating(to_display(rd.log[i].value_a))
                = RoundRating(rd.log[i].value_a * SpecScale + 1500 * MICRO)
        /\ rd.response.total = SidesOnSpecScale(rd.log, rd.min_rating, rd.max_rating)

RECURSIVE SumOver(_, _)
SumOver(f, n) == IF n = 0 THEN 0 ELSE f[n] + SumOver(f, n - 1)

\* a history request that grouped every fetched row
GroupedAll == rd.step = "char_history" /\ rd.group_games /\ ~rd.response.panic

\* C22: after the calls of add_to_grouped_sets for the fetched rows, starting
\* from the empty list, every set has result_wins + result_losses = length of
\* rating_change_sequence >= 1, the sets together hold as many games as there
\* were calls, and as many wins as there were calls with winner = true.
C22_GroupedSetsCount ==
    GroupedAll =>
        LET h == rd.response.history
        IN /\ \A k \in 1..Len(h) :
                /\ h[k].result_wins + h[k].result_losses = Len(h[k].rating_change_sequence)
                /\ Len(h[k].rating_change_sequence) >= 1
           /\ SumOver([k \in 1..Len(h) |-> h[k].result_wins + h[k].result_losses], Len(h)) = Len(rd.rows)
           /\ SumOver([k \in 1..Len(h) |-> h[k].result_wins], Len(h))
                = Cardinality({i \in 1..Len(rd.rows) : rd.rows[i].winner = 1})

\* three games grouped into two sets, a lost game merged into the first
C22_Witness ==
    /\ GroupedAll
    /\ Len(rd.rows) = 3
    /\ Len(rd.response.history) = 2
    /\ rd.response.history[1].result_wins = 1
    /\ rd.response.history[1].result_losses = 1

\* C23: a call merges the game into the last set exactly when that set has
\* the game's (opponent_id, opponent_char) and otherwise appends a set: no
\* two adjacent sets have the same opponent, a merge leaves every set but the
\* last as it was, keeps the last set's floor, opponent name and status flags
\* and overwrites its timestamp and both rating pairs with the game's.
C23_MergeOnlyIntoLast ==
    GroupedAll =>
        /\ \A k \in 1..(Len(rd.response.history) - 1) :
            <<rd.response.history[k].opponent_id, rd.response.history[k].opponent_char>>
                # <<rd.response.history[k + 1].opponent_id, rd.response.history[k + 1].opponent_char>>
        /\ \A n \in 1..Len(rd.rows) :
            LET before == HistoryUpTo(rd.rows, TRUE, n - 1).history
                after == HistoryUpTo(rd.rows, TRUE, n).history
                g == rd.rows[n]
                same == /\ before # << >>
                        /\ before[Len(before)].opponent_id = g.opponent_id
                        /\ before[Len(before)].opponent_char = g.opponent_char
                last == after[Len(after)]
            IN /\ Len(after) = IF same THEN Len(before) ELSE Len(before) + 1
               /\ SubSeq(after, 1, Len(after) - 1) = SubSeq(before, 1, Len(after) - 1)
               /\ last.timestamp = MaxHistory - n
               /\ last.own_value = g.own_value /\ last.own_deviation = g.own_deviation
               /\ last.opponent_value = g.opponent_value
               /\ last.opponent_deviation = g.opponent_deviation
               /\ same =>
                    /\ last.floor = before[Len(before)].floor
                    /\ last.opponent_name = before[Len(before)].opponent_name
                    /\ last.opponent_vip = before[Len(before)].opponent_vip
                    /\ last.opponent_cheater = before[Len(before)].opponent_cheater

\* a game with another floor and opponent name was merged into the last set,
\* after a set of the same player's other character
C23_Witness ==
    /\ GroupedAll
    /\ Len(rd.rows) = 3
    /\ Len(rd.response.history) = 2
    /\ rd.rows[2].opponent_char = rd.rows[3].opponent_char
    /\ rd.rows[2].floor # rd.rows[3].floor
    /\ rd.response.history[2].floor = rd.rows[2].floor
    /\ rd.response.history[2].own_value = rd.rows[3].own_value

\* C24: get_player_char_history returns an empty history whenever group_games
\* is false, whatever rows it fetched, and with group_games = true a history
\* that holds the fetched rows.
C24_HistoryOnlyWhenGrouped ==
    rd.step = "char_history" =>
        /\ ~rd.group_games => (~rd.response.panic /\ rd.response.history = << >>)
        /\ (rd.group_games /\ ~rd.response.panic /\ rd.rows # << >>) => rd.response.history # << >>

\* rows were fetched, one of them with a winner that is neither side, and the
\* history is empty because group_games is false
C24_Witness ==
    /\ rd.step = "char_history"
    /\ ~rd.group_games
    /\ Len(rd.rows) = MaxHistory
    /\ \E i \in 1..Len(rd.rows) : rd.rows[i].winner = 0
    /\ rd.response.history = << >>

\* the seven grades, worst first
Grades == <<"verybad", "bad", "slightlybad", "ok", "slightlygood", "good", "verygood">>

GradeRank(e) == CHOOSE k \in 1..Len(Grades) : Grades[k] = e

\* a row with enough real games and a defined adjusted win rate
Graded(row) ==
    /\ row # NoRow
    /\ row.wins_real + row.losses_real >= MATCHUP_MIN_GAMES
    /\ row.wins_adjusted + row.losses_adjusted > 0

\* C25: in the global and the high-rated matchup table suspicious is true
\* exactly when evaluation is "none", which is exactly when there is no row
\* or fewer than MATCHUP_MIN_GAMES real games; otherwise the evaluation is one
\* of the seven grades, and a row with the higher wins / (wins + losses) never
\* has the lower grade.
C25_EvaluationAndSuspicious ==
    rd.step \in {"matchups_global", "matchups_high_rated"} =>
        /\ rd.response.suspicious <=> rd.response.evaluation = "none"
        /\ rd.response.evaluation = "none" <=>
            (rd.row = NoRow \/ rd.row.wins_real + rd.row.losses_real < MATCHUP_MIN_GAMES)
        /\ rd.response.evaluation # "none" =>
            \E k \in 1..Len(Grades) : Grades[k] = rd.response.evaluation
        /\ Graded(rd.row) =>
            \A other \in {r \in MatchupRows : Graded(r)} :
                rd.row.wins_adjusted * (other.wins_adjusted + other.losses_adjusted)
                    >= other.wins_adjusted * (rd.row.wins_adjusted + rd.row.losses_adjusted)
                => GradeRank(rd.response.evaluation) >= GradeRank(Matchup(other).evaluation)

\* a pair with enough games graded "good": 59 adjusted wins of 100
C25_Witness ==
    /\ rd.step = "matchups_global"
    /\ Graded(rd.row)
    /\ rd.response.evaluation = "good"
    /\ ~rd.response.suspicious

\* C26: matchups_versus returns one entry per ordered pair of characters; a
\* mirror pair is win_rate 50, game_count 0, suspicious false, evaluation
\* "ok" whatever the table holds; a pair without a row is suspicious with
\* evaluation "none"; a pair with a row is never evaluated "none", also when
\* it is flagged suspicious.
C26_VersusMatrix ==
    /\ rd.step = "matchups_versus_all" =>
        /\ DOMAIN rd.response = Chars
        /\ \A c \in Chars :
            /\ DOMAIN rd.response[c] = Chars
            /\ \A o \in Chars :
                LET e == rd.response[c][o]
                    row == rd.table[<<c, o>>]
                IN /\ c = o => (e.win_rate = Float(50) /\ e.game_count = 0
                                /\ ~e.suspicious /\ e.evaluation = "ok")
                   /\ (c # o /\ row = NoRow) => (e.suspicious /\ e.evaluation = "none")
                   /\ (c # o /\ row # NoRow) => e.evaluation # "none"
    /\ (rd.step = "matchups_versus" /\ rd.char_id # rd.opp_char_id /\ rd.row # NoRow) =>
        rd.response.evaluation # "none"

\* a pair with a row below both minimums is flagged and still graded, beside
\* a mirror pair that has a row in the table
C26_Witness ==
    /\ rd.step = "matchups_versus_all"
    /\ rd.table[<<1, 1>>] # NoRow
    /\ rd.table[<<1, 2>>] # NoRow
    /\ rd.response[1][2].suspicious
    /\ rd.response[1][2].evaluation = "verygood"
    /\ rd.table[<<2, 1>>] = NoRow

\* C27: top_all_inner and top_char_inner return at most 100 entries whose pos
\* values are 1, 2, ..., n in output order, whatever the stored rank column
\* holds; top_char_inner returns only entries of the requested character.
C27_TopPositions ==
    rd.step \in {"top_all", "top_char"} =>
        /\ Len(rd.response) <= 100
        /\ \A i \in 1..Len(rd.response) : rd.response[i].pos = i
        /\ rd.step = "top_char" =>
            \A i \in 1..Len(rd.response) : rd.response[i].char_id = rd.char_id

\* a character's ranking cut at the limit, from a table whose rank column
\* runs against the output order and has rows without a player
C27_Witness ==
    /\ rd.step = "top_char"
    /\ rd.char_id = 1
    /\ Len(rd.table) = 350
    /\ rd.table[8].rank = 343
    /\ rd.missing = 3
    /\ Len(rd.response) = 100
    /\ rd.response[3].id = 8

\* the counted sides of the experience request of the state and the unit of
\* their deltas
CountedSides ==
    IF rd.step = "rating_experience"
    THEN experience_sides(rd.log, rd.min_rating, rd.max_rating)
    ELSE experience_player_sides(rd.log, rd.id)

DeltaUnit == IF rd.step = "rating_experience" THEN MICRO ELSE CENTI

\* C28: every counted game side adds one to total and one to exactly one
\* 25-point bucket floor((delta + 12.5) / 25); the output lists the 61 buckets
\* -750..750; the reported counts sum to at most the total, and to the total
\* exactly when every delta falls in the buckets -30..30.
C28_ExperienceBuckets ==
    rd.step \in {"rating_experience", "rating_experience_player"} =>
        LET r == rd.response
            D == CountedSides
            u == DeltaUnit
            reported == SumOver([k \in 1..61 |-> r.difference_counts[k - 31].num], 61)
        IN /\ r.total = Cardinality(D)
           /\ DOMAIN r.difference_counts = (0 - 30)..30
           /\ \A k \in (0 - 30)..30 :
                /\ r.difference_amounts[k] = 25 * k
                /\ r.difference_counts[k].den = r.total
                /\ r.difference_counts[k].num
                     = 100 * Cardinality({x \in D : /\ 2 * x[2] >= (50 * k - 25) * u
                                                    /\ 2 * x[2] < (50 * k + 25) * u})
           /\ reported <= 100 * r.total
           /\ reported = 100 * r.total
                <=> \A x \in D : 2 * x[2] >= (0 - 1525) * u /\ 2 * x[2] < 1525 * u

\* two games, the sides of one in bucket 0 and the sides of the other beyond
\* the last bucket: half of the total is reported
C28_Witness ==
    /\ rd.step = "rating_experience"
    /\ rd.response.total = 4
    /\ rd.response.difference_counts[0].num = 200
    /\ \A k \in (0 - 30)..30 : k # 0 => rd.response.difference_counts[k].num = 0
    /\ \E x \in CountedSides : 2 * x[2] >= 1525 * MICRO

\* the player-characters floor_rating_distribution fetches
Qualifying ==
    {q \in PlayerChars : rd.ratings[q] # NoRow /\ rd.ratings[q].deviation < LOW_DEVIATION}

\* C29: floor_rating_distribution returns a result for any table content, and
\* counts every player-character with deviation below the cutoff in exactly
\* one entry of overall and one entry of its floor's list; the bucket list
\* covers every populated 50-point bucket.
C29_DistributionCountsAll ==
    rd.step = "floor_rating_distribution" =>
        LET r == rd.response
            n == Len(r.ratings)
        IN /\ ~r.panic
           /\ SumOver(r.overall, n) = Cardinality(Qualifying)
           /\ \A f \in DOMAIN r.floors :
                SumOver(r.floors[f], n) = Cardinality({q \in Qualifying : rd.floor[q[1]] = f})
           /\ \A q \in Qualifying :
                \E k \in 1..n : r.ratings[k] = 50 * distribution_bucket(rd.ratings[q].value)

\* the bucket index of every game the request of the state fetched
FetchedBuckets ==
    IF rd.step = "accuracy"
    THEN {<<r, accuracy_bucket(expected(r.own, r.opp))>> : r \in accuracy_rows(rd.log, rd.id, rd.char_id)}
    ELSE {<<i, outcomes_bucket(expected(Rating(rd.log[i].value_a, rd.log[i].deviation_a),
                                         Rating(rd.log[i].value_b, rd.log[i].deviation_b)))>> :
            i \in 1..Len(rd.log)}

\* the buckets of the response are those of the fetched games: every game is
\* in one bucket of the array, a bucket without a game has no ratio, and in a
\* bucket with games 0 <= wins <= total
BucketsAccount ==
    LET size == IF rd.step = "accuracy" THEN 10 ELSE 100
        b == rd.response.buckets
    IN /\ DOMAIN b = 0..size
       /\ \A x \in FetchedBuckets : x[2] \in 0..size
       /\ \A k \in 0..size :
            IF \E x \in FetchedBuckets : x[2] = k
            THEN ~b[k].nan /\ b[k].v >= 0 /\ b[k].v <= 1000
            ELSE b[k] = NAN

\* C30: the bucket index of an expected outcome is inside the bucket array
\* (0..10 in player_rating_accuracy, 0..100 in outcomes) and every fetched
\* game adds one count in one bucket, so that in every bucket wins <= total.
C30_BucketIndexInside ==
    rd.step \in {"accuracy", "outcomes"} => (~rd.response.panic /\ BucketsAccount)

====
